---- MODULE Spec2Model ----
(***************************************************************************)
(* Model of the mute/solo manager (src/manual backup/mute_solo_manager.py) *)
(* and of the patchbay blocks and groups that write the same ALSA mixers   *)
(* (src/patchbay.py).                                                      *)
(***************************************************************************)
EXTENDS Integers, Sequences, FiniteSets, TLC

\* ------------------------------------------------------------ bounds

\* number of calls / operator gestures in one run
MaxCalls == 3

\* number of calls in one batch, the caller's emission included
MaxBatch == 2

\* number of calls in a run whose mixers may fail
MaxFaulty == 2

\* number of gestures in a run that sweeps a group's faders over 0..100
MaxPush == 3

\* number of rounds of the polling thread's loop in one run
MaxTicks == 1

\* ------------------------------------------------------------ inventory

\* The controls alsa_backend.list_mixer_controls returns, in the order the
\* manager inserts them into channel_states (the dict's iteration order).
ChannelOrder == <<"Mic-AN1", "Mic-AN2", "Main-Out AN1", "Main-Out AN2">>

Channels == {ChannelOrder[i] : i \in 1..Len(ChannelOrder)}

\* channel_name.startswith("Main-Out"), over the inventory
IsMainOutput(channel_name) == channel_name \in {"Main-Out AN1", "Main-Out AN2"}

\* mixer.getvolume()[0] of each control when the manager is constructed
InitialVolume == [ch \in Channels |->
                    CASE ch = "Mic-AN1" -> 70
                      [] ch = "Mic-AN2" -> 40
                      [] ch = "Main-Out AN1" -> 80
                      [] OTHER -> 60]

\* the volumes a caller passes to update_volume / a fader is moved to
Volumes == {0, 55}

VARIABLES
    channel_states,   \* MuteSoloManager.channel_states: name -> MuteSoloState
    soloed_channels,  \* MuteSoloManager.soloed_channels
    muted_channels,   \* MuteSoloManager.muted_channels
    any_soloed,       \* MuteSoloManager.any_soloed
    any_muted,        \* MuteSoloManager.any_muted
    timer_active,     \* flash_timer.isActive()
    flash_on,         \* MuteSoloManager.flash_on
    hw,               \* the Gain Backend: volume of each ALSA mixer
    fader_value,      \* ChannelBlock.fader_value of each block
    groups,           \* PatchbayView.groups: the GroupWidgets that exist
    block_class,      \* the class the blocks of this run are built from
    channel,          \* PatchbayChannel: muted, pre_mute_volume, slider value
    containers,       \* the GroupContainers that exist
    alsa_update,      \* AlsaPollingWorker.alsa_update: the maps in flight
    current_tab,      \* OutputsTabs.tabs.currentIndex(), mixer or patchbay
    last_vals,        \* _worker_loop: the map of the previous emission
    poll_vals,        \* _worker_loop: the map read in the round under way
    ticks,            \* rounds of _worker_loop so far
    preset_files,     \* presets/<name>.json: the JSON document of each file
    loaded,           \* what the last load_preset returned, <<>> for None
    listing,          \* what the last list_presets returned
    preset_op,        \* the last call of the PresetManager and its result
    writes,           \* mixer.setvolume calls of the last call, in order
    emitted,          \* state_changed emissions of the last call
    sweeps,           \* _apply_solo_logic runs of the last call
    log,              \* the steps of the last call, in the order it took them
    last,             \* the last call and its arguments
    calls,            \* number of calls so far
    unbatched,        \* the manager the same calls leave with batch = False
    batch_total,      \* state_changed emissions since the batch began
    faultless,        \* the manager the same calls leave when no mixer fails
    real_level,       \* level each channel had just before it became muted
    stored_volume,    \* <<v>>: update_volume gave v during the current mute
    before_solo       \* muted flags just before the first solo

progvars == <<channel_states, soloed_channels, muted_channels, any_soloed,
              any_muted, timer_active, flash_on, hw>>
containervars == <<block_class, channel, containers>>
pollvars == <<alsa_update, current_tab, last_vals, poll_vals, ticks>>
uivars == <<fader_value, groups, block_class, channel, containers, alsa_update,
            current_tab, last_vals, poll_vals, ticks>>
presetvars == <<preset_files, loaded, listing, preset_op>>
obsvars == <<writes, emitted, sweeps, log, last, calls, unbatched, batch_total,
             faultless,
             real_level, stored_volume, before_solo>>
vars == <<channel_states, soloed_channels, muted_channels, any_soloed,
          any_muted, timer_active, flash_on, hw, fader_value, groups,
          block_class, channel, containers, alsa_update, current_tab,
          last_vals, poll_vals, ticks, preset_files, loaded, listing,
          preset_op, writes,
          emitted, sweeps, log, last, calls, unbatched, batch_total, faultless,
          real_level, stored_volume,
          before_solo>>

\* ------------------------------------------------------------ the manager

\* @dataclass MuteSoloState as _initialize_channels builds it
MuteSoloState(initial_volume) ==
    [muted |-> FALSE, soloed |-> FALSE, pre_mute_volume |-> initial_volume,
     pre_solo_muted |-> FALSE, explicit_mute |-> FALSE, explicit_solo |-> FALSE]

\* The manager and its mixers as one value, with the observations of the
\* call in progress.
Mgr == [channel_states |-> channel_states, soloed_channels |-> soloed_channels,
        muted_channels |-> muted_channels, any_soloed |-> any_soloed,
        any_muted |-> any_muted, timer_active |-> timer_active,
        flash_on |-> flash_on, hw |-> hw,
        writes |-> <<>>, emitted |-> 0, sweeps |-> 0, log |-> <<>>,
        read_fails |-> {}, write_fails |-> {}]

\* a step of the call in progress, entered in its log
Step(m, step) == [m EXCEPT !.log = Append(@, step)]

\* self.state_changed.emit()
Emit(m) == Step([m EXCEPT !.emitted = @ + 1], <<"state_changed">>)

\* the start/stop block with its stop branch missing
FlashTimer_NeverStops(m) ==
    IF (m.any_soloed \/ m.any_muted) /\ ~m.timer_active
    THEN [m EXCEPT !.timer_active = TRUE]
    ELSE m

\* the flash-timer start/stop block shared by set_mute and set_solo
FlashTimer(m) ==
    IF (m.any_soloed \/ m.any_muted) /\ ~m.timer_active
    THEN [m EXCEPT !.timer_active = TRUE]
    ELSE IF ~m.any_soloed /\ ~m.any_muted /\ m.timer_active
         THEN Step([m EXCEPT !.timer_active = FALSE, !.flash_on = FALSE],
                   <<"flash_state_changed", FALSE>>)
         ELSE m

\* mixers[channel_name].setvolume(v) unless skip_alsa; a setvolume that
\* raises leaves the level alone and the exception is caught by the caller
SetVolume(m, channel_name, v, skip_alsa) ==
    IF skip_alsa \/ channel_name \in m.write_fails THEN m
    ELSE [m EXCEPT !.hw[channel_name] = v,
                   !.writes = Append(@, <<channel_name, v>>)]

\* set_mute's early return without the explicit comparison made useless:
\* the "No change" return is missing
no_change_Missing(state, muted, explicit) == FALSE

\* set_mute: state.muted == muted and state.explicit_mute == explicit
no_change(state, muted, explicit) ==
    state.muted = muted /\ state.explicit_mute = explicit

\* set_mute's mute branch reading the volume after it wrote the 0
mute_ReadsAfterWrite(m, channel_name, skip_alsa) ==
    LET m1 == SetVolume(m, channel_name, 0, skip_alsa) IN
    [m1 EXCEPT !.channel_states[channel_name].pre_mute_volume =
                   m1.hw[channel_name]]

\* set_mute, "if muted:": getvolume into pre_mute_volume, then setvolume(0);
\* a getvolume that raises skips both
mute(m, channel_name, skip_alsa) ==
    IF channel_name \in m.read_fails THEN m ELSE
    SetVolume([m EXCEPT !.channel_states[channel_name].pre_mute_volume =
                            m.hw[channel_name]],
              channel_name, 0, skip_alsa)

\* set_mute, "else:": setvolume(state.pre_mute_volume)
unmute(m, channel_name, skip_alsa) ==
    SetVolume(m, channel_name, m.channel_states[channel_name].pre_mute_volume,
              skip_alsa)

\* the flag updates made only when the mixer raised nothing
set_flags_OnlyIfMixerOk(m, channel_name, muted, explicit) ==
    IF channel_name \in m.read_fails \cup m.write_fails THEN m
    ELSE [m EXCEPT
            !.channel_states[channel_name].muted = muted,
            !.channel_states[channel_name].explicit_mute =
                IF explicit THEN muted ELSE @,
            !.muted_channels = IF muted THEN @ \cup {channel_name}
                               ELSE @ \ {channel_name}]

\* set_mute, after the try block: state.muted, muted_channels, explicit_mute
set_flags(m, channel_name, muted, explicit) ==
    [m EXCEPT
       !.channel_states[channel_name].muted = muted,
       !.channel_states[channel_name].explicit_mute =
           IF explicit THEN muted ELSE @,
       !.muted_channels = IF muted THEN @ \cup {channel_name}
                          ELSE @ \ {channel_name}]

\* MuteSoloManager.set_mute
set_mute(m, channel_name, muted, skip_alsa, explicit, batch) ==
    IF channel_name \notin DOMAIN m.channel_states THEN m
    ELSE IF no_change(m.channel_states[channel_name], muted, explicit) THEN m
    ELSE
    LET m1 == IF muted THEN mute(m, channel_name, skip_alsa)
              ELSE unmute(m, channel_name, skip_alsa)
        m2 == set_flags(m1, channel_name, muted, explicit)
        m3 == FlashTimer([m2 EXCEPT !.any_muted = (m2.muted_channels # {})])
        m4 == IF ~m3.any_soloed
              THEN [m3 EXCEPT !.channel_states[channel_name].pre_solo_muted =
                                  m3.channel_states[channel_name].muted]
              ELSE m3
        m5 == Step(Step(Step(m4, <<"mute_state_changed", channel_name, muted>>),
                        <<"volume_changed", channel_name,
                          IF muted THEN 0
                          ELSE m4.channel_states[channel_name].pre_mute_volume>>),
                   <<"ui_update">>)
    IN IF batch THEN m5 ELSE Emit(m5)

\* a sweep that leaves the mutes of the solo in place when the solo ends
should_be_muted_NoRestore(m, channel_name) == IF m.any_soloed THEN (IF IsMainOutput(channel_name) THEN m.channel_states[channel_name].muted ELSE ~m.channel_states[channel_name].soloed) ELSE m.channel_states[channel_name].muted

\* _apply_solo_logic: should_be_muted of one channel
should_be_muted(m, channel_name) ==
    IF m.any_soloed
    THEN IF IsMainOutput(channel_name)
         THEN m.channel_states[channel_name].muted
         ELSE ~m.channel_states[channel_name].soloed
    ELSE m.channel_states[channel_name].pre_solo_muted

\* the loop of _apply_solo_logic from the i-th channel of channel_states on
RECURSIVE SoloSweep(_, _, _)
SoloSweep(m, skip_alsa, i) ==
    IF i > Len(ChannelOrder) THEN m
    ELSE IF ChannelOrder[i] \notin DOMAIN m.channel_states
    THEN SoloSweep(m, skip_alsa, i + 1)
    ELSE SoloSweep(set_mute(Step(m, <<"apply", ChannelOrder[i]>>),
                            ChannelOrder[i],
                            should_be_muted(m, ChannelOrder[i]), skip_alsa,
                            FALSE, TRUE),
                   skip_alsa, i + 1)

\* the loop of _apply_solo_logic with channel_states listed in this order
RECURSIVE SoloSweepIn(_, _, _)
SoloSweepIn(m, skip_alsa, order) ==
    IF order = <<>> THEN m
    ELSE SoloSweepIn(set_mute(Step(m, <<"apply", Head(order)>>), Head(order),
                              should_be_muted(m, Head(order)), skip_alsa,
                              FALSE, TRUE),
                     skip_alsa, Tail(order))

\* MuteSoloManager._apply_solo_logic
apply_solo_logic(m, skip_alsa, batch) ==
    LET m1 == SoloSweep(m, skip_alsa, 1)
        m2 == [m1 EXCEPT !.sweeps = @ + 1]
    IN IF batch THEN Emit(m2) ELSE m2

\* the early return taken on the explicit flag alone
solo_no_change_ByExplicitFlag(state, soloed, explicit) == state.explicit_solo = soloed

\* set_solo: state.soloed == soloed and state.explicit_solo == explicit
solo_no_change(state, soloed, explicit) ==
    state.soloed = soloed /\ state.explicit_solo = explicit

\* the snapshot taken on every solo, not only on the first
takes_snapshot_EverySolo(m, soloed) == soloed

\* set_solo: "if soloed: if not self.any_soloed:"
takes_snapshot(m, soloed) == soloed /\ ~m.any_soloed

\* set_solo's snapshot: pre_solo_muted = muted, for every channel
snapshot(m) ==
    [m EXCEPT !.channel_states =
                  [ch \in DOMAIN m.channel_states |->
                      [m.channel_states[ch] EXCEPT
                          !.pre_solo_muted = m.channel_states[ch].muted]],
              !.log = Append(@, <<"snapshot">>)]

\* set_solo's sweep with batch passed where skip_alsa belongs
solo_sweep_call_Swapped(m, skip_alsa, batch) ==
    apply_solo_logic(m, batch, TRUE)

\* set_solo: self._apply_solo_logic(skip_alsa, batch=True)
solo_sweep_call(m, skip_alsa, batch) == apply_solo_logic(m, skip_alsa, TRUE)

\* set_solo taking its snapshot after the sweep instead of before it
set_solo_LateSnapshot(m, channel_name, soloed, skip_alsa, explicit, batch) ==
    IF channel_name \notin DOMAIN m.channel_states THEN m
    ELSE IF solo_no_change(m.channel_states[channel_name], soloed, explicit)
    THEN m
    ELSE
    LET m2 == [m EXCEPT
                 !.soloed_channels = IF soloed THEN @ \cup {channel_name}
                                     ELSE @ \ {channel_name},
                 !.channel_states[channel_name].soloed = soloed,
                 !.channel_states[channel_name].explicit_solo =
                     IF explicit THEN soloed ELSE @]
        m3 == Step([m2 EXCEPT !.any_soloed = (m2.soloed_channels # {})],
                   <<"solo_state_changed", channel_name, soloed>>)
        m4 == FlashTimer(solo_sweep_call(m3, skip_alsa, batch))
        m5 == Step(IF takes_snapshot(m, soloed) THEN snapshot(m4) ELSE m4,
                   <<"ui_update">>)
    IN IF batch THEN m5 ELSE Emit(m5)

\* MuteSoloManager.set_solo
set_solo(m, channel_name, soloed, skip_alsa, explicit, batch) ==
    IF channel_name \notin DOMAIN m.channel_states THEN m
    ELSE IF solo_no_change(m.channel_states[channel_name], soloed, explicit)
    THEN m
    ELSE
    LET m1 == IF takes_snapshot(m, soloed) THEN snapshot(m) ELSE m
        m2 == [m1 EXCEPT
                 !.soloed_channels = IF soloed THEN @ \cup {channel_name}
                                     ELSE @ \ {channel_name},
                 !.channel_states[channel_name].soloed = soloed,
                 !.channel_states[channel_name].explicit_solo =
                     IF explicit THEN soloed ELSE @]
        m3 == Step([m2 EXCEPT !.any_soloed = (m2.soloed_channels # {})],
                   <<"solo_state_changed", channel_name, soloed>>)
        m4 == Step(FlashTimer(solo_sweep_call(m3, skip_alsa, batch)),
                   <<"ui_update">>)
    IN IF batch THEN m4 ELSE Emit(m4)

\* self.channel_states.get(channel_name, MuteSoloState())
StateOf(m, channel_name) ==
    IF channel_name \in DOMAIN m.channel_states
    THEN m.channel_states[channel_name]
    ELSE MuteSoloState(50)

\* get_effective_mute_state without the test for a main output
get_effective_mute_state_NoOutputTest(m, channel_name) ==
    IF m.any_soloed
    THEN ~StateOf(m, channel_name).soloed
    ELSE StateOf(m, channel_name).muted

\* MuteSoloManager.get_effective_mute_state
get_effective_mute_state(m, channel_name) ==
    IF m.any_soloed /\ ~IsMainOutput(channel_name)
    THEN ~StateOf(m, channel_name).soloed
    ELSE StateOf(m, channel_name).muted

\* update_volume without its return for an unknown name
update_volume_NoReturn(m, channel_name, volume, skip_alsa) ==
    Step(IF channel_name \notin DOMAIN m.channel_states THEN m
         ELSE IF m.channel_states[channel_name].muted
              THEN [m EXCEPT
                      !.channel_states[channel_name].pre_mute_volume = volume]
              ELSE SetVolume(m, channel_name, volume, skip_alsa),
         <<"volume_changed", channel_name, volume>>)

\* MuteSoloManager.update_volume
update_volume(m, channel_name, volume, skip_alsa) ==
    IF channel_name \notin DOMAIN m.channel_states THEN m
    ELSE Step(IF m.channel_states[channel_name].muted
              THEN [m EXCEPT
                      !.channel_states[channel_name].pre_mute_volume = volume]
              ELSE SetVolume(m, channel_name, volume, skip_alsa),
              <<"volume_changed", channel_name, volume>>)

\* MuteSoloManager.clear_all_solo over list(self.soloed_channels) = order
RECURSIVE clear_all_solo(_, _)
clear_all_solo(m, order) ==
    IF order = <<>> THEN m
    ELSE clear_all_solo(set_solo(m, Head(order), FALSE, FALSE, TRUE, FALSE),
                        Tail(order))

\* the loop of set_all_states over the entries of states not yet stored
RECURSIVE StoreStates(_, _, _)
StoreStates(m, states, names) ==
    IF names = {} THEN m
    ELSE LET name == CHOOSE n \in names : TRUE
             m1 == IF name \in DOMAIN m.channel_states
                   THEN Step(Step([m EXCEPT !.channel_states[name] =
                                               states[name]],
                                  <<"mute_state_changed", name,
                                    states[name].muted>>),
                             <<"solo_state_changed", name,
                               states[name].soloed>>)
                   ELSE m
         IN StoreStates(m1, states, names \ {name})

\* MuteSoloManager.set_all_states
set_all_states(m, states) ==
    Step(apply_solo_logic(StoreStates(m, states, DOMAIN states), TRUE, FALSE),
         <<"ui_update">>)

\* the orders in which a Python set with these members can be listed
Orders(S) == {o \in [1..Cardinality(S) -> S] :
                 \A i, j \in 1..Cardinality(S) : i # j => o[i] # o[j]}

\* what the manager owns and what it pushed: ChannelRecords, global sets,
\* hardware levels
Core(m) == [channel_states |-> m.channel_states,
            soloed_channels |-> m.soloed_channels,
            muted_channels |-> m.muted_channels,
            any_soloed |-> m.any_soloed, any_muted |-> m.any_muted,
            hw |-> m.hw]

\* ------------------------------------------------------------ the run

NoCall == [op |-> "init", ch |-> "", flag |-> FALSE, vol |-> 0,
           explicit |-> FALSE, skip_alsa |-> FALSE, batch |-> FALSE,
           was |-> FALSE]

\* no alsa_update signal is queued
NoUpdate == <<>>

\* the channels of the strips of a tab, which _tab_changed hands to the
\* poller with set_channels: the patchbay tab has no strips
Watched(tab) == IF tab = "mixer" THEN Channels ELSE {}

\* the state after construction, the blocks being instances of cls and the
\* manager having built a mixer for the controls in known
InitModel(cls, known) ==
    /\ block_class = cls
    /\ channel = [ch \in Channels |->
                     [muted |-> FALSE, pre_mute_volume |-> InitialVolume[ch],
                      slider |-> InitialVolume[ch]]]
    /\ containers = {}
    /\ alsa_update = NoUpdate
    /\ current_tab = "patchbay"
    /\ last_vals = [ch \in Watched("patchbay") |-> 0]
    /\ poll_vals = <<>>
    /\ ticks = 0
    /\ channel_states = [ch \in known |-> MuteSoloState(InitialVolume[ch])]
    /\ soloed_channels = {}
    /\ muted_channels = {}
    /\ any_soloed = FALSE
    /\ any_muted = FALSE
    /\ timer_active = FALSE
    /\ flash_on = FALSE
    /\ hw = InitialVolume
    /\ fader_value = InitialVolume
    /\ groups = {}
    /\ writes = <<>>
    /\ emitted = 0
    /\ sweeps = 0
    /\ log = <<>>
    /\ last = NoCall
    /\ calls = 0
    /\ unbatched = Mgr
    /\ faultless = Mgr
    /\ batch_total = 0
    /\ real_level = InitialVolume
    /\ stored_volume = [ch \in Channels |-> <<>>]
    /\ before_solo = [ch \in Channels |-> FALSE]

\* PresetManager.__init__ on a new presets directory
NoPresets ==
    /\ preset_files = <<>>
    /\ loaded = <<>>
    /\ listing = <<>>
    /\ preset_op = [op |-> "", name |-> "", ok |-> FALSE, preset |-> <<>>]

InitWith(cls, known) == InitModel(cls, known) /\ NoPresets

\* ... every control's mixer having been built
InitBlocks(cls) == InitWith(cls, Channels)

Init == InitBlocks("ChannelBlock")

\* the manager's fields and the call's observations after a call
Install(m) ==
    /\ channel_states' = m.channel_states
    /\ soloed_channels' = m.soloed_channels
    /\ muted_channels' = m.muted_channels
    /\ any_soloed' = m.any_soloed
    /\ any_muted' = m.any_muted
    /\ timer_active' = m.timer_active
    /\ flash_on' = m.flash_on
    /\ hw' = m.hw
    /\ writes' = m.writes
    /\ emitted' = m.emitted
    /\ sweeps' = m.sweeps
    /\ log' = m.log

\* bookkeeping of the run: what the claims compare the manager against
Track(call, m) ==
    /\ last' = call
    /\ calls' = calls + 1
    /\ real_level' = [ch \in Channels |->
          IF ~StateOf(Mgr, ch).muted /\ StateOf(m, ch).muted
          THEN hw[ch]
          ELSE IF call.op = "update_volume" /\ call.ch = ch
                  /\ StateOf(Mgr, ch).muted
               THEN call.vol
               ELSE real_level[ch]]
    /\ stored_volume' = [ch \in Channels |->
          IF ~StateOf(m, ch).muted THEN <<>>
          ELSE IF call.op = "update_volume" /\ call.ch = ch
                  /\ StateOf(Mgr, ch).muted
               THEN << call.vol >>
               ELSE stored_volume[ch]]
    /\ before_solo' = IF soloed_channels = {} /\ m.soloed_channels # {}
                      THEN [ch \in Channels |-> StateOf(Mgr, ch).muted]
                      ELSE before_solo
    /\ UNCHANGED presetvars

\* one call of the manager: what it leaves, and the run's record of it
Perform(call, m) == Install(m) /\ Track(call, m)

\* a call as the run records it; was: the flag the call is about, before it
Call(op, ch, flag, vol, explicit, skip_alsa, batch) ==
    [op |-> op, ch |-> ch, flag |-> flag, vol |-> vol, explicit |-> explicit,
     skip_alsa |-> skip_alsa, batch |-> batch,
     was |-> CASE op = "set_mute" -> StateOf(Mgr, ch).muted
               [] op = "set_solo" -> StateOf(Mgr, ch).soloed
               [] OTHER -> FALSE]

\* a caller of the manager's API with hardware writes enabled
SetMute ==
    \E ch \in Channels, muted, explicit \in BOOLEAN :
        /\ calls < MaxCalls
        /\ Perform(Call("set_mute", ch, muted, 0, explicit, FALSE, FALSE),
                   set_mute(Mgr, ch, muted, FALSE, explicit, FALSE))
        /\ UNCHANGED <<uivars, unbatched, batch_total, faultless>>

SetSolo ==
    \E ch \in Channels, soloed, explicit \in BOOLEAN :
        /\ calls < MaxCalls
        /\ Perform(Call("set_solo", ch, soloed, 0, explicit, FALSE, FALSE),
                   set_solo(Mgr, ch, soloed, FALSE, explicit, FALSE))
        /\ UNCHANGED <<uivars, unbatched, batch_total, faultless>>

UpdateVolume ==
    \E ch \in Channels, volume \in Volumes :
        /\ calls < MaxCalls
        /\ Perform(Call("update_volume", ch, FALSE, volume, FALSE, FALSE, FALSE),
                   update_volume(Mgr, ch, volume, FALSE))
        /\ UNCHANGED <<uivars, unbatched, batch_total, faultless>>

ClearAllSolo ==
    \E order \in Orders(soloed_channels) :
        /\ calls < MaxCalls
        /\ Perform(Call("clear_all_solo", "", FALSE, 0, TRUE, FALSE, FALSE),
                   clear_all_solo(Mgr, order))
        /\ UNCHANGED <<uivars, unbatched, batch_total, faultless>>

Next == SetMute \/ SetSolo \/ UpdateVolume \/ ClearAllSolo

Spec == Init /\ [][Next]_vars

\* the MuteSoloState objects a caller loads: flags as saved while no solo
\* was active, the level a default MuteSoloState holds
LoadedStates ==
    {[muted |-> muted, soloed |-> soloed, pre_mute_volume |-> 50,
      pre_solo_muted |-> muted, explicit_mute |-> muted,
      explicit_solo |-> soloed] : muted \in BOOLEAN, soloed \in BOOLEAN}

\* the channels whose state a caller restores: an input and an output
LoadedChannels == {"Mic-AN1", "Main-Out AN1"}

\* a caller restoring the saved state of one channel
SetAllStates ==
    \E ch \in LoadedChannels, state \in LoadedStates :
        /\ calls < MaxCalls
        /\ Perform(Call("set_all_states", ch, state.muted, 0, FALSE, TRUE,
                        FALSE),
                   set_all_states(Mgr, [name \in {ch} |-> state]))
        /\ UNCHANGED <<uivars, unbatched, batch_total, faultless>>

NextStates == SetMute \/ SetSolo \/ ClearAllSolo \/ SetAllStates

SpecStates == Init /\ [][NextStates]_vars

\* ------------------------------------------------------------ the ticker

\* MuteSoloManager._toggle_flash
toggle_flash(m) ==
    Step([m EXCEPT !.flash_on = ~m.flash_on],
         <<"flash_state_changed", ~m.flash_on>>)

\* flash_timer.timeout fires, which it does only while the timer is active
ToggleFlash ==
    /\ calls < MaxCalls
    /\ timer_active
    /\ Perform(Call("toggle_flash", "", FALSE, 0, FALSE, FALSE, FALSE),
               toggle_flash(Mgr))
    /\ UNCHANGED <<uivars, unbatched, batch_total, faultless>>

NextFlash == Next \/ ToggleFlash

SpecFlash == Init /\ [][NextFlash]_vars

\* ------------------------------------------------------------ failures

\* the names a caller passes: the controls, and one the manager never saw
Names == Channels \cup {"Mic-AN9"}

\* the mixers whose getvolume (first) or setvolume (second) raises during
\* one call
Faults == {<<{}, {}>>, <<{"Mic-AN1"}, {}>>, <<{}, {"Mic-AN1"}>>,
           <<Channels, {}>>, <<{}, Channels>>}

\* the manager in front of mixers that fail as f says
Faulty(m, f) == [m EXCEPT !.read_fails = f[1], !.write_fails = f[2]]

\* the manager the calls left when no mixer failed, before its next call
Faultless == [faultless EXCEPT !.writes = <<>>, !.emitted = 0, !.sweeps = 0,
                               !.log = <<>>]

\* set_mute with any name, in front of mixers that may fail
FaultySetMute ==
    \E name \in Names, muted, explicit \in BOOLEAN, f \in Faults :
        /\ calls < MaxFaulty
        /\ Perform(Call("set_mute", name, muted, 0, explicit, FALSE, FALSE),
                   set_mute(Faulty(Mgr, f), name, muted, FALSE, explicit,
                            FALSE))
        /\ faultless' = set_mute(Faultless, name, muted, FALSE, explicit, FALSE)
        /\ UNCHANGED <<uivars, unbatched, batch_total>>

\* set_solo with any name, in front of mixers that may fail
FaultySetSolo ==
    \E name \in Names, soloed, explicit \in BOOLEAN, f \in Faults :
        /\ calls < MaxFaulty
        /\ Perform(Call("set_solo", name, soloed, 0, explicit, FALSE, FALSE),
                   set_solo(Faulty(Mgr, f), name, soloed, FALSE, explicit,
                            FALSE))
        /\ faultless' = set_solo(Faultless, name, soloed, FALSE, explicit,
                                 FALSE)
        /\ UNCHANGED <<uivars, unbatched, batch_total>>

\* update_volume with any name, in front of mixers that may fail
FaultyUpdateVolume ==
    \E name \in Names, volume \in Volumes, f \in Faults :
        /\ calls < MaxFaulty
        /\ Perform(Call("update_volume", name, FALSE, volume, FALSE, FALSE,
                        FALSE),
                   update_volume(Faulty(Mgr, f), name, volume, FALSE))
        /\ faultless' = update_volume(Faultless, name, volume, FALSE)
        /\ UNCHANGED <<uivars, unbatched, batch_total>>

NextFaults == FaultySetMute \/ FaultySetSolo \/ FaultyUpdateVolume

SpecFaults == Init /\ [][NextFaults]_vars

\* ------------------------------------------------------------ batches

\* the manager the unbatched calls left, before its next call
Unbatched == [unbatched EXCEPT !.writes = <<>>, !.emitted = 0, !.sweeps = 0,
                               !.log = <<>>]

\* state_changed emissions since the batch began, this call's included
BatchTotal ==
    (IF last.op \in {"init", "caller_emit"} THEN 0 ELSE batch_total) + emitted'

\* layout_manager.apply_layout_to_patchbay: manager.set_mute(..., batch=True);
\* unbatched follows the same call made with batch=False
BatchSetMute ==
    \E ch \in Channels, muted, explicit, skip_alsa \in BOOLEAN :
        /\ calls < MaxBatch
        /\ Perform(Call("set_mute", ch, muted, 0, explicit, skip_alsa, TRUE),
                   set_mute(Mgr, ch, muted, skip_alsa, explicit, TRUE))
        /\ unbatched' = set_mute(Unbatched, ch, muted, skip_alsa, explicit,
                                 FALSE)
        /\ batch_total' = BatchTotal
        /\ UNCHANGED <<uivars, faultless>>

\* layout_manager.apply_layout_to_patchbay: manager.set_solo(..., batch=True)
BatchSetSolo ==
    \E ch \in Channels, soloed, explicit, skip_alsa \in BOOLEAN :
        /\ calls < MaxBatch
        /\ Perform(Call("set_solo", ch, soloed, 0, explicit, skip_alsa, TRUE),
                   set_solo(Mgr, ch, soloed, skip_alsa, explicit, TRUE))
        /\ unbatched' = set_solo(Unbatched, ch, soloed, skip_alsa, explicit,
                                 FALSE)
        /\ batch_total' = BatchTotal
        /\ UNCHANGED <<uivars, faultless>>

\* layout_manager.apply_layout_to_patchbay: manager.state_changed.emit(),
\* the caller's single emission after its batch
CallerEmit ==
    /\ calls < MaxBatch
    /\ last.batch
    /\ emitted' = 1
    /\ writes' = <<>>
    /\ sweeps' = 0
    /\ log' = << <<"state_changed">> >>
    /\ Track(Call("caller_emit", "", FALSE, 0, FALSE, FALSE, FALSE), Mgr)
    /\ batch_total' = BatchTotal
    /\ UNCHANGED <<progvars, uivars, unbatched, faultless>>

NextBatch == BatchSetMute \/ BatchSetSolo \/ CallerEmit

SpecBatch == Init /\ [][NextBatch]_vars

\* ------------------------------------------------------------ the patchbay

\* crossfader positions the operator drags the crossfader to
Balances == {0, 50, 100}

\* floor(10^6 * math.cos(p / 100 * math.pi / 2)) for p = 0 .. 100, as Python
\* computes it; math.sin of the same angle is the entry of 100 - p
CosMicro == <<
        1000000, 999876, 999506, 998889, 998026, 996917,
        995561, 993960, 992114, 990023, 987688, 985109,
        982287, 979222, 975916, 972369, 968583, 964557,
        960293, 955793, 951056, 946085, 940880, 935444,
        929776, 923879, 917754, 911403, 904827, 898027,
        891006, 883765, 876306, 868631, 860742, 852640,
        844327, 835807, 827080, 818149, 809016, 799684,
        790155, 780430, 770513, 760405, 750111, 739631,
        728968, 718126, 707106, 695912, 684547, 673012,
        661311, 649448, 637423, 625242, 612907, 600420,
        587785, 575005, 562083, 549022, 535826, 522498,
        509041, 495458, 481753, 467929, 453990, 439939,
        425779, 411514, 397147, 382683, 368124, 353474,
        338737, 323917, 309016, 294040, 278991, 263873,
        248689, 233445, 218143, 202787, 187381, 171929,
        156434, 140901, 125333, 109734, 94108, 78459,
        62790, 47106, 31410, 15707, 0>>

\* a constant-power law replaced by a linear one on the left member
left_volume_Linear(level, position) == (level * (100 - position)) \div 100

\* int(level * math.cos(position / 100.0 * math.pi / 2))
left_volume(level, position) == (level * CosMicro[position + 1]) \div 1000000

\* int(level * math.sin(position / 100.0 * math.pi / 2))
right_volume(level, position) ==
    (level * CosMicro[100 - position + 1]) \div 1000000

\* GroupWidget._initialize_from_blocks: int(val1 / (val1 + val2) * 100) in
\* floating point, which falls one short of the quotient for five pairs
crossfader_pos(val1, val2) ==
    IF val1 + val2 > 0
    THEN IF <<val1, val2>> \in {<<29, 21>>, <<29, 71>>, <<57, 43>>,
                                <<58, 42>>, <<87, 63>>}
         THEN (val1 * 100) \div (val1 + val2) - 1
         ELSE (val1 * 100) \div (val1 + val2)
    ELSE 50

\* GroupWidget.__init__ and _initialize_from_blocks. listed: the widget is in
\* PatchbayView.groups; pushed: the levels of the group's last push, kept for
\* reference only
GroupWidget(block1, block2) ==
    [block1 |-> block1, block2 |-> block2,
     macro_fader |-> (fader_value[block1] + fader_value[block2]) \div 2,
     crossfader |-> crossfader_pos(fader_value[block1], fader_value[block2]),
     listed |-> FALSE, pushed |-> <<>>]

\* the sliders set with their signals unblocked: valueChanged runs the push
set_controls_Unblocked(levels, g) == [levels EXCEPT ![g.block1] = left_volume(g.macro_fader, g.crossfader), ![g.block2] = right_volume(g.macro_fader, g.crossfader)]

\* the blocks' levels after _initialize_from_blocks or
\* _update_group_from_blocks set the macro fader and the crossfader of g: both
\* sliders are set inside blockSignals(True), no handler runs and no block is
\* touched
set_controls(levels, g) == levels

\* block.current_group is set
Grouped(ch) == \E g \in groups : ch \in {g.block1, g.block2}

\* a handler that leaves the blocks and the groups alone
ManagerOnly(call, m) ==
    /\ Perform(call, m)
    /\ UNCHANGED <<uivars, unbatched, batch_total, faultless>>

\* ChannelBlock._on_mute_clicked
MuteClicked ==
    \E ch \in Channels :
        /\ calls < MaxCalls
        /\ ~Grouped(ch)
        /\ ManagerOnly(Call("mute_clicked", ch, ~channel_states[ch].muted, 0,
                            TRUE, FALSE, FALSE),
                       set_mute(Mgr, ch, ~channel_states[ch].muted, FALSE,
                                TRUE, FALSE))

\* ChannelBlock._on_solo_clicked
SoloClicked ==
    \E ch \in Channels :
        /\ calls < MaxCalls
        /\ ~Grouped(ch)
        /\ ManagerOnly(Call("solo_clicked", ch, ~channel_states[ch].soloed, 0,
                            TRUE, FALSE, FALSE),
                       set_solo(Mgr, ch, ~channel_states[ch].soloed, FALSE,
                                TRUE, FALSE))

\* ChannelBlock._on_fader_changed: the slider of a visible block moved
FaderChanged ==
    \E ch \in Channels, value \in Volumes :
        /\ calls < MaxCalls
        /\ ~Grouped(ch)
        /\ value # fader_value[ch]
        /\ fader_value' = [fader_value EXCEPT ![ch] = value]
        /\ Perform(Call("fader_changed", ch, FALSE, value, FALSE, FALSE, FALSE),
                   SetVolume(Mgr, ch, value, FALSE))
        /\ UNCHANGED <<groups, containervars, pollvars, unbatched, batch_total,
                     faultless>>

\* ChannelBlock.wheelEvent, then update_fader()
WheelEvent ==
    \E ch \in Channels, direction \in {-1, 1}, step_size \in {1, 5} :
        LET new_value ==
                IF fader_value[ch] + direction * step_size < 0 THEN 0
                ELSE IF fader_value[ch] + direction * step_size > 100 THEN 100
                ELSE fader_value[ch] + direction * step_size
        IN /\ calls < MaxCalls
           /\ ~Grouped(ch)
           /\ fader_value' = [fader_value EXCEPT ![ch] = new_value]
           /\ Perform(Call("wheel", ch, FALSE, new_value, FALSE, FALSE, FALSE),
                      SetVolume(Mgr, ch, new_value, FALSE))
           /\ UNCHANGED <<groups, containervars, pollvars, unbatched, batch_total,
                     faultless>>

\* ChannelBlock._create_group for two blocks a drag snapped together
create_group(left_block, right_block) ==
    /\ block_class = "ChannelBlock"
    /\ current_tab = "patchbay"
    /\ left_block # right_block
    /\ ~Grouped(left_block) /\ ~Grouped(right_block)
    /\ groups' = groups \cup {GroupWidget(left_block, right_block)}
    /\ fader_value' = set_controls(fader_value,
                                   GroupWidget(left_block, right_block))
    /\ Perform(Call("create_group", left_block, FALSE, 0, FALSE, FALSE, FALSE),
               Mgr)
    /\ UNCHANGED <<containervars, pollvars, unbatched, batch_total, faultless>>

\* ChannelBlock._create_group, after a drag snapped two free blocks
CreateGroup ==
    \E left_block, right_block \in Channels :
        /\ calls < MaxCalls
        /\ create_group(left_block, right_block)

\* ungroup leaving the widget in the scene and in the view's list
ungroup_KeepsGroup(gs, g) == gs

\* GroupWidget.ungroup: both blocks' current_group cleared, the widget taken
\* out of PatchbayView.groups and out of the scene
ungroup(gs, g) == gs \ {g}

\* GroupWidget.ungroup
Ungroup ==
    \E g \in groups :
        /\ calls < MaxCalls
        /\ groups' = ungroup(groups, g)
        /\ Perform(Call("ungroup", g.block1, FALSE, 0, FALSE, FALSE, FALSE),
                   Mgr)
        /\ UNCHANGED <<fader_value, containervars, pollvars, unbatched, batch_total,
                     faultless>>

\* fader_slider.setValue(value) without the blockSignals(True) around it:
\* valueChanged is emitted when the value changes
slider_signal_Unblocked(old, value) == old # value

\* whether fader_slider.setValue(value) inside update_fader emits
\* valueChanged: the signals are blocked around it
slider_signal(old, value) == FALSE

\* block.fader_value = value; block.update_fader(): the slider is set, which
\* would run _on_fader_changed (a write of its own) on a signal, then the
\* mixer is written
update_fader(m, ch, old, value) ==
    SetVolume(IF slider_signal(old, value) THEN SetVolume(m, ch, value, FALSE)
              ELSE m,
              ch, value, FALSE)

\* the body shared by GroupWidget._on_crossfader_changed and
\* _on_macro_fader_changed: both blocks get their constant-power level
PanPush(handler, g, value, macro_level, position) ==
    /\ block_class = "ChannelBlock"
    /\ current_tab = "patchbay"
    /\ fader_value' = [fader_value EXCEPT
                          ![g.block1] = left_volume(macro_level, position),
                          ![g.block2] = right_volume(macro_level, position)]
    /\ groups' = (groups \ {g}) \cup
                    {[g EXCEPT !.macro_fader = macro_level,
                               !.crossfader = position,
                               !.pushed =
                                   <<left_volume(macro_level, position),
                                     right_volume(macro_level, position)>>]}
    /\ Perform(Call(handler, g.block1, FALSE, value, FALSE, FALSE, FALSE),
               update_fader(
                   update_fader(Step(Mgr, <<"push", g.block1>>), g.block1,
                                fader_value[g.block1],
                                left_volume(macro_level, position)),
                   g.block2, fader_value[g.block2],
                   right_volume(macro_level, position)))
    /\ UNCHANGED <<containervars, pollvars, unbatched, batch_total, faultless>>

\* GroupWidget._on_macro_fader_changed
MacroFaderChanged ==
    \E g \in groups, value \in Volumes \cup {100} :
        /\ calls < MaxCalls
        /\ value # g.macro_fader
        /\ PanPush("macro_fader_changed", g, value, value, g.crossfader)

\* GroupWidget._on_crossfader_changed
CrossfaderChanged ==
    \E g \in groups, value \in Balances :
        /\ calls < MaxCalls
        /\ value # g.crossfader
        /\ PanPush("crossfader_changed", g, value, g.macro_fader, value)

\* GroupWidget._on_mute_clicked: both blocks get not(block1's mute state)
GroupMuteClicked ==
    \E g \in groups :
        LET new_mute_state == ~StateOf(Mgr, g.block1).muted IN
        /\ calls < MaxCalls
        /\ ManagerOnly(Call("group_mute_clicked", g.block1, new_mute_state, 0,
                            TRUE, FALSE, FALSE),
                       set_mute(set_mute(Mgr, g.block1, new_mute_state, FALSE,
                                         TRUE, FALSE),
                                g.block2, new_mute_state, FALSE, TRUE, FALSE))

\* GroupWidget._on_solo_clicked: both blocks get not(block1's solo state)
GroupSoloClicked ==
    \E g \in groups :
        LET new_solo_state == ~StateOf(Mgr, g.block1).soloed IN
        /\ calls < MaxCalls
        /\ ManagerOnly(Call("group_solo_clicked", g.block1, new_solo_state, 0,
                            TRUE, FALSE, FALSE),
                       set_solo(set_solo(Mgr, g.block1, new_solo_state, FALSE,
                                         TRUE, FALSE),
                                g.block2, new_solo_state, FALSE, TRUE, FALSE))

NextPatchbay ==
    \/ MuteClicked \/ SoloClicked \/ FaderChanged \/ WheelEvent
    \/ CreateGroup \/ Ungroup \/ MacroFaderChanged \/ CrossfaderChanged
    \/ GroupMuteClicked \/ GroupSoloClicked

SpecPatchbay == Init /\ [][NextPatchbay]_vars

\* ---------------------------------------------------------------------------
\* Groups of PatchbayChannel blocks: GroupContainer
\* ---------------------------------------------------------------------------

\* min(max(volume, 0), 100)
Clamp(volume) == IF volume < 0 THEN 0 ELSE IF volume > 100 THEN 100 ELSE volume

\* GroupContainer.__init__ for two blocks: the crossfader centred, the macro
\* fader at full volume
GroupContainer(left_block, right_block) ==
    [blocks |-> <<left_block, right_block>>, crossfader |-> 50,
     macro_fader |-> 100, macro_fader_value |-> 100,
     updating_controls |-> FALSE]

\* the block has snapped_blocks
Snapped(ch) == \E c \in containers : ch \in {c.blocks[1], c.blocks[2]}

\* what a handler of the PatchbayChannel side leaves alone: the manager of
\* the ChannelBlock side, its groups, and the poller
ContainerFrame(call, m) ==
    /\ block_class = "PatchbayChannel"
    /\ Perform(call, m)
    /\ UNCHANGED <<groups, block_class, pollvars, unbatched, batch_total,
                   faultless>>

\* two blocks snapped together: add_to_group, then a GroupContainer over them
container_created(left_block, right_block) ==
    /\ left_block # right_block
    /\ ~Snapped(left_block) /\ ~Snapped(right_block)
    /\ containers' = containers \cup {GroupContainer(left_block, right_block)}
    /\ ContainerFrame(Call("create_group", left_block, FALSE, 0, FALSE, FALSE,
                           FALSE), Mgr)
    /\ UNCHANGED <<fader_value, channel>>

\* the body shared by GroupContainer._on_macro_fader_changed and
\* _on_crossfader_changed: the sliders are where the operator left them, the
\* blocks get the clamped constant-power levels with updateFader(
\* skip_change_event=True), which leaves their sliders alone
ContainerPush(handler, c, value, macro_level, position) ==
    LET left == Clamp(left_volume(macro_level, position))
        right == Clamp(right_volume(macro_level, position))
    IN /\ ~c.updating_controls
       /\ fader_value' = [fader_value EXCEPT ![c.blocks[1]] = left,
                                             ![c.blocks[2]] = right]
       /\ containers' = (containers \ {c}) \cup
             {[c EXCEPT !.crossfader = position,
                        !.macro_fader =
                            IF handler = "macro_fader_changed" THEN value
                            ELSE @,
                        !.macro_fader_value = macro_level]}
       /\ ContainerFrame(Call(handler, c.blocks[1], FALSE, value, FALSE, FALSE,
                              FALSE),
                         SetVolume(SetVolume(Step(Mgr,
                                                  <<"push", c.blocks[1]>>),
                                             c.blocks[1], left, FALSE),
                                   c.blocks[2], right, FALSE))
       /\ UNCHANGED channel

\* ---------------------------------------------------------------------------
\* A group's faders swept over their range, in either implementation
\* ---------------------------------------------------------------------------

InitGroups == \E cls \in {"ChannelBlock", "PatchbayChannel"} : InitBlocks(cls)

\* the sweep is of one group: the drag that snaps the first two blocks
SnapBlocks ==
    \E left_block, right_block \in Channels :
        /\ calls < MaxPush
        /\ groups = {}
        /\ create_group(left_block, right_block)

\* the same drag over PatchbayChannel blocks
SnapChannels ==
    \E left_block, right_block \in Channels :
        /\ calls < MaxPush
        /\ containers = {}
        /\ container_created(left_block, right_block)

\* GroupWidget._on_macro_fader_changed, any slider value
MacroFaderSwept ==
    \E g \in groups, value \in 0..100 :
        /\ calls < MaxPush
        /\ value # g.macro_fader
        /\ PanPush("macro_fader_changed", g, value, value, g.crossfader)

\* GroupWidget._on_crossfader_changed
CrossfaderSwept ==
    \E g \in groups, value \in Balances :
        /\ calls < MaxPush
        /\ value # g.crossfader
        /\ PanPush("crossfader_changed", g, value, g.macro_fader, value)

\* GroupContainer._on_macro_fader_changed, any slider value
ContainerMacroSwept ==
    \E c \in containers, value \in 0..100 :
        /\ calls < MaxPush
        /\ value # c.macro_fader
        /\ ContainerPush("macro_fader_changed", c, value, value, c.crossfader)

\* GroupContainer._on_crossfader_changed
ContainerCrossfaderSwept ==
    \E c \in containers, value \in Balances :
        /\ calls < MaxPush
        /\ value # c.crossfader
        /\ ContainerPush("crossfader_changed", c, value, c.macro_fader_value,
                         value)

NextPanLaw ==
    \/ SnapBlocks \/ MacroFaderSwept \/ CrossfaderSwept
    \/ SnapChannels \/ ContainerMacroSwept \/ ContainerCrossfaderSwept

SpecPanLaw == InitGroups /\ [][NextPanLaw]_vars

\* ---------------------------------------------------------------------------
\* Dragging blocks together and apart
\* ---------------------------------------------------------------------------

\* the blocks a released block can touch: what the geometry tests of the two
\* mouseReleaseEvent handlers let through
Near == {near \in SUBSET Channels : Cardinality(near) <= 1}

\* a block's current_group, among the groups gs
InGroup(ch, gs) == \E g \in gs : ch \in {g.block1, g.block2}

\* ChannelBlock._create_group: its own test of both blocks, then the
\* GroupWidget, which PatchbayView.groups does not get
block_create_group(gs, self, other_block, position) ==
    IF InGroup(self, gs) \/ InGroup(other_block, gs) THEN gs
    ELSE gs \cup {IF position = "left" THEN GroupWidget(self, other_block)
                  ELSE GroupWidget(other_block, self)}

\* PatchbayView.create_group: the GroupWidget, appended to self.groups
view_create_group(gs, block1, block2) ==
    gs \cup {[GroupWidget(block1, block2) EXCEPT !.listed = TRUE]}

\* check_for_snapping without its test of item.current_group
snapping_candidates_AnyBlock(dragged_block, near, gs) ==
    {item \in near : item # dragged_block}

\* check_for_snapping: the items it does not skip
snapping_candidates(dragged_block, near, gs) ==
    {item \in near : item # dragged_block /\ ~InGroup(item, gs)}

\* the left button released over the scene after a drag:
\* PatchbayView.mouseReleaseEvent hands the event to the block, whose
\* mouseReleaseEvent groups it with a free block within snap distance, and
\* then runs check_for_snapping for the block
MouseReleased ==
    /\ block_class = "ChannelBlock"
    /\ current_tab = "patchbay"
    /\ calls < MaxCalls
    /\ \E dragged \in Channels, near_block \in Near, near_view \in Near,
          position \in {"left", "right"} :
        LET found == IF InGroup(dragged, groups) THEN {}
                     ELSE {item \in near_block :
                              item # dragged /\ ~InGroup(item, groups)}
        IN \E item \in IF found = {} THEN {dragged} ELSE found :
            LET snapped == IF found = {} THEN groups
                           ELSE block_create_group(groups, dragged, item,
                                                   position)
                touching == snapping_candidates(dragged, near_view, snapped)
            IN \E other \in IF touching = {} THEN {dragged} ELSE touching :
                /\ groups' = IF touching = {} \/ InGroup(dragged, snapped)
                             THEN snapped
                             ELSE view_create_group(snapped, dragged, other)
                /\ Perform(Call("mouse_release", dragged, FALSE, 0, FALSE,
                                FALSE, FALSE), Mgr)
                /\ UNCHANGED <<fader_value, containervars, pollvars,
                               unbatched, batch_total, faultless>>

NextSnap ==
    \/ MouseReleased \/ Ungroup \/ MacroFaderChanged \/ CrossfaderChanged
    \/ FaderChanged \/ GroupMuteClicked \/ GroupSoloClicked

SpecSnap == Init /\ [][NextSnap]_vars

\* ---------------------------------------------------------------------------
\* The two methods that make a group, asked to pair any two blocks
\* ---------------------------------------------------------------------------

\* the frame of a request: nothing but the groups changes
Requested(op, block, gs) ==
    /\ block_class = "ChannelBlock"
    /\ groups' = gs
    /\ Perform(Call(op, block, FALSE, 0, FALSE, FALSE, FALSE), Mgr)
    /\ UNCHANGED <<fader_value, containervars, pollvars, unbatched,
                   batch_total, faultless>>

\* self._create_group(other_block, position)
BlockCreateGroupRequested ==
    \E self \in Channels, other_block \in Channels,
       position \in {"left", "right"} :
        /\ calls < MaxCalls
        /\ Requested("block_create_group", self,
                     block_create_group(groups, self, other_block, position))

\* PatchbayView.create_group(block1, block2)
ViewCreateGroupRequested ==
    \E block1 \in Channels, block2 \in Channels :
        /\ calls < MaxCalls
        /\ Requested("view_create_group", block1,
                     view_create_group(groups, block1, block2))

NextRequests == BlockCreateGroupRequested \/ ViewCreateGroupRequested

SpecRequests == Init /\ [][NextRequests]_vars

\* ---------------------------------------------------------------------------
\* A block whose control the manager has no mixer for
\* ---------------------------------------------------------------------------

\* the controls for which _initialize_channels built a mixer: Mixer() raised
\* for Mic-AN2, which the patchbay still shows as a block
Known == Channels \ {"Mic-AN2"}

InitMissing == InitWith("ChannelBlock", Known)

NextMissing ==
    \/ CreateGroup \/ GroupMuteClicked \/ GroupSoloClicked
    \/ MacroFaderChanged \/ CrossfaderChanged

SpecMissing == InitMissing /\ [][NextMissing]_vars

\* ---------------------------------------------------------------------------
\* PresetManager: presets kept as JSON files
\* ---------------------------------------------------------------------------

\* names a caller gives a preset; presets/tmp does not exist
PresetNames == {"Live", "Studio", "tmp/Live"}

\* the names in the order sorted() gives them
NameOrder == <<"Live", "Studio", "tmp/Live">>

\* names whose file lies in a directory that is missing: open() raises
Unwritable == {"tmp/Live"}

\* a Python tuple and a Python list of the same items are different values
PyTuple(items) == [kind |-> "tuple", items |-> items]
PyList(items) == [kind |-> "list", items |-> items]

\* the empty dict
EmptyDict == <<>>

\* PatchbayView.serialize_state: the blocks with their positions as tuples
serialize_state(block, x, y) ==
    [blocks |-> << [ctl_name |-> block, position |-> PyTuple(<<x, y>>),
                    fader_value |-> InitialVolume[block]] >>,
     groups |-> <<>>]

\* @dataclass RoutingPreset with the fields the round trip is about
RoutingPreset(name, version, alsa_state, patchbay_state) ==
    [name |-> name, version |-> version, alsa_state |-> alsa_state,
     patchbay_state |-> patchbay_state]

\* _capture_alsa_state: the level of every control
capture_alsa_state == [ch \in Channels |-> InitialVolume[ch]]

\* json.dump of a patchbay state: a tuple is written as an array
json_dump_state(state) ==
    IF state = EmptyDict THEN state
    ELSE [state EXCEPT !.blocks =
            [i \in DOMAIN state.blocks |->
                [state.blocks[i] EXCEPT !.position = PyList(@.items)]]]

\* json.dump(asdict(preset)) followed by json.load: the document of the file
json_document(preset) ==
    [preset EXCEPT !.patchbay_state = json_dump_state(@)]

\* a file with one more entry
WithFile(files, name, document) ==
    [n \in DOMAIN files \cup {name} |->
        IF n = name THEN document ELSE files[n]]

\* PresetManager.save_preset
save_preset(files, preset) ==
    IF preset.name \in Unwritable
    THEN [ok |-> FALSE, files |-> files]
    ELSE [ok |-> TRUE,
          files |-> WithFile(files, preset.name, json_document(preset))]

\* PresetManager.load_preset; <<>> is None
load_preset(files, name) ==
    IF name \notin DOMAIN files THEN <<>>
    ELSE LET data == files[name]
         IN IF data.version = "1.0"
            THEN << RoutingPreset(data.name, "2.0", EmptyDict, EmptyDict) >>
            ELSE << RoutingPreset(data.name, data.version, data.alsa_state,
                                  data.patchbay_state) >>

\* PresetManager.list_presets
list_presets(files) ==
    SelectSeq(NameOrder, LAMBDA name : name \in DOMAIN files)

\* PresetManager.delete_preset
delete_preset(files, name) ==
    IF name \in DOMAIN files
    THEN [ok |-> TRUE, files |-> [n \in DOMAIN files \ {name} |-> files[n]]]
    ELSE [ok |-> FALSE, files |-> files]

\* the presets a caller saves: one made from the current state, one with the
\* defaults of the dataclass, one that load_preset returned
Presets ==
    {RoutingPreset(name, "2.0", alsa_state, patchbay_state) :
        name \in PresetNames,
        alsa_state \in {EmptyDict, capture_alsa_state},
        patchbay_state \in {EmptyDict, serialize_state("Mic-AN1", 10, 20),
                            json_dump_state(serialize_state("Mic-AN1", 10,
                                                            20))}}

\* a presets directory an older version wrote a file into
OldFiles ==
    {EmptyDict,
     [n \in {"Studio"} |->
        RoutingPreset("Studio", "1.0", capture_alsa_state, EmptyDict)]}

InitPresets ==
    /\ InitModel("ChannelBlock", Channels)
    /\ preset_files \in OldFiles
    /\ loaded = <<>>
    /\ listing = <<>>
    /\ preset_op = [op |-> "", name |-> "", ok |-> FALSE, preset |-> <<>>]

PresetFrame == UNCHANGED <<progvars, obsvars, uivars>>

SavePreset ==
    \E preset \in Presets :
        LET saved == save_preset(preset_files, preset)
        IN /\ preset_files' = saved.files
           /\ preset_op' = [op |-> "save_preset", name |-> preset.name,
                            ok |-> saved.ok, preset |-> << preset >>]
           /\ UNCHANGED <<loaded, listing>>
           /\ PresetFrame

LoadPreset ==
    \E name \in PresetNames :
        /\ loaded' = load_preset(preset_files, name)
        /\ preset_op' = [op |-> "load_preset", name |-> name,
                         ok |-> loaded' # <<>>, preset |-> <<>>]
        /\ UNCHANGED <<preset_files, listing>>
        /\ PresetFrame

ListPresets ==
    /\ listing' = list_presets(preset_files)
    /\ preset_op' = [op |-> "list_presets", name |-> "", ok |-> TRUE,
                     preset |-> <<>>]
    /\ UNCHANGED <<preset_files, loaded>>
    /\ PresetFrame

DeletePreset ==
    \E name \in PresetNames :
        LET deleted == delete_preset(preset_files, name)
        IN /\ preset_files' = deleted.files
           /\ preset_op' = [op |-> "delete_preset", name |-> name,
                            ok |-> deleted.ok, preset |-> <<>>]
           /\ UNCHANGED <<loaded, listing>>
           /\ PresetFrame

NextPresets == SavePreset \/ LoadPreset \/ ListPresets \/ DeletePreset

SpecPresets == InitPresets /\ [][NextPresets]_vars

\* ---------------------------------------------------------------------------
\* Groups and the other sources of their members' levels
\* ---------------------------------------------------------------------------

\* OutputsTabs._tab_changed: the operator changes between the patchbay tab
\* and a mixer tab, where the poller watches the strips' channels
TabChanged ==
    /\ block_class = "ChannelBlock"
    /\ calls < MaxCalls
    /\ current_tab' = IF current_tab = "patchbay" THEN "mixer" ELSE "patchbay"
    /\ UNCHANGED <<progvars, obsvars, presetvars, fader_value, groups,
                   containervars,
                   alsa_update, last_vals, poll_vals, ticks>>

\* ChannelStrip.on_fader_change on a mixer tab: the level goes to the
\* hardware, past the patchbay's blocks
StripFaderMoved ==
    \E ch \in Channels, value \in Volumes :
        /\ block_class = "ChannelBlock"
        /\ calls < MaxCalls
        /\ current_tab = "mixer"
        /\ value # hw[ch]
        /\ Perform(Call("strip_fader_changed", ch, FALSE, value, FALSE, FALSE,
                        FALSE),
                   SetVolume(Mgr, ch, value, FALSE))
        /\ UNCHANGED <<uivars, unbatched, batch_total, faultless>>

\* AlsaPollingWorker._worker_loop, first half of a round: the thread reads
\* alsa_backend.get_volume for the channel names it holds
PollRead ==
    /\ block_class = "ChannelBlock"
    /\ ticks < MaxTicks
    /\ poll_vals = <<>>
    /\ poll_vals' = << [ch \in Watched(current_tab) |-> hw[ch]] >>
    /\ UNCHANGED <<progvars, obsvars, presetvars, fader_value, groups,
                   containervars,
                   alsa_update, current_tab, last_vals, ticks>>

\* a direct connection: the slot runs inside emit, in the poller's thread
after_emit_Direct(levels, vals) == [ch \in DOMAIN levels |-> IF ch \in DOMAIN vals THEN vals[ch] ELSE levels[ch]]

\* the blocks' levels when alsa_update.emit(vals) returns in the poller
\* thread: the signal is connected with the default connection type and the
\* receiver lives in the GUI thread, so the call is queued and the slot has
\* not run
after_emit(levels, vals) == levels

\* second half of the round: if vals != last_vals the map is emitted, which
\* queues it for the GUI thread, and becomes last_vals; then the thread
\* sleeps
PollEmit ==
    /\ poll_vals # <<>>
    /\ LET vals == poll_vals[1]
       IN IF vals # last_vals
          THEN /\ alsa_update' = Append(alsa_update, vals)
               /\ last_vals' = vals
               /\ fader_value' = after_emit(fader_value, vals)
          ELSE UNCHANGED <<alsa_update, last_vals, fader_value>>
    /\ poll_vals' = <<>>
    /\ ticks' = ticks + 1
    /\ UNCHANGED <<progvars, obsvars, presetvars, groups, containervars,
                   current_tab>>

\* OutputsTabs._update_group_from_blocks
update_group_from_blocks(g, values) ==
    [g EXCEPT !.macro_fader = (values[g.block1] + values[g.block2]) \div 2,
              !.crossfader = crossfader_pos(values[g.block1],
                                            values[g.block2])]

\* the blocks _update_patchbay_from_alsa gives a new level
Updated(values) ==
    IF current_tab = "patchbay" THEN {}
    ELSE {ch \in DOMAIN values : values[ch] # fader_value[ch]}

\* the log of one _update_patchbay_from_alsa: the groups it reconciles
RECURSIVE Reconciled(_, _)
Reconciled(m, gs) ==
    IF gs = {} THEN m
    ELSE LET g == CHOOSE x \in gs : TRUE
         IN Reconciled(Step(m, <<"reconcile", g.block1>>), gs \ {g})

\* OutputsTabs._alsa_update_received: off the patchbay tab the blocks take
\* the polled levels without a write (skip_alsa=True), and the groups of the
\* blocks that changed are recomputed from their members
AlsaUpdateReceived ==
    LET values == Head(alsa_update)
        marked == {g \in groups : {g.block1, g.block2} \cap Updated(values) # {}}
    IN /\ block_class = "ChannelBlock"
       /\ calls < MaxCalls
       /\ alsa_update # NoUpdate
       /\ alsa_update' = Tail(alsa_update)
       /\ LET updated == [ch \in Channels |->
                             IF ch \in Updated(values) THEN values[ch]
                             ELSE fader_value[ch]]
          IN /\ groups' = {IF g \in marked
                           THEN update_group_from_blocks(g, updated)
                           ELSE g : g \in groups}
             /\ fader_value' =
                   [ch \in Channels |->
                       IF \E g \in marked : ch \in {g.block1, g.block2}
                       THEN LET g == CHOOSE h \in marked :
                                        ch \in {h.block1, h.block2}
                            IN set_controls(
                                   updated,
                                   update_group_from_blocks(g, updated))[ch]
                       ELSE updated[ch]]
       /\ Perform(Call("alsa_update", "", FALSE, 0, FALSE, TRUE, FALSE),
                  Reconciled(Mgr, marked))
       /\ UNCHANGED <<containervars, current_tab, last_vals, poll_vals, ticks,
                      unbatched, batch_total, faultless>>

\* two PatchbayChannel blocks snapped together
ContainerCreated ==
    \E left_block, right_block \in Channels :
        /\ calls < MaxCalls
        /\ container_created(left_block, right_block)

\* GroupContainer._on_macro_fader_changed
ContainerMacroChanged ==
    \E c \in containers, value \in Volumes \cup {100} :
        /\ calls < MaxCalls
        /\ value # c.macro_fader
        /\ ContainerPush("macro_fader_changed", c, value, value, c.crossfader)

\* GroupContainer._on_crossfader_changed
ContainerCrossfaderChanged ==
    \E c \in containers, value \in Balances :
        /\ calls < MaxCalls
        /\ value # c.crossfader
        /\ ContainerPush("crossfader_changed", c, value, c.macro_fader_value,
                         value)

\* GroupContainer._on_individual_fader_changed: the crossfader and the macro
\* fader are set from the blocks' levels with their signals blocked
on_individual_fader_changed(c, values) ==
    IF c.updating_controls THEN c
    ELSE LET left_current == values[c.blocks[1]]
             right_current == values[c.blocks[2]]
             total_volume == left_current + right_current
         IN [c EXCEPT !.crossfader = crossfader_pos(right_current,
                                                    left_current),
                      !.macro_fader = Clamp(total_volume),
                      !.macro_fader_value = total_volume]

\* PatchbayChannel.on_fader_changed: the block's slider moved; a muted block
\* ignores it, otherwise the level is written and the block's group container
\* updates its controls
ChannelFaderChanged ==
    \E ch \in Channels, value \in Volumes :
        /\ calls < MaxCalls
        /\ value # channel[ch].slider
        /\ channel' = [channel EXCEPT ![ch].slider = value]
        /\ IF channel[ch].muted
           THEN /\ UNCHANGED <<fader_value, containers>>
                /\ ContainerFrame(Call("fader_changed", ch, FALSE, value,
                                       FALSE, FALSE, FALSE), Mgr)
           ELSE /\ fader_value' = [fader_value EXCEPT ![ch] = value]
                /\ containers' =
                       {IF ch \in {c.blocks[1], c.blocks[2]}
                        THEN on_individual_fader_changed(c, fader_value')
                        ELSE c : c \in containers}
                /\ ContainerFrame(
                       Call("fader_changed", ch, FALSE, value, FALSE, FALSE,
                            FALSE),
                       IF Snapped(ch)
                       THEN Step(SetVolume(Mgr, ch, value, FALSE),
                                 <<"reconcile",
                                   (CHOOSE c \in containers :
                                       ch \in {c.blocks[1],
                                               c.blocks[2]}).blocks[1]>>)
                       ELSE SetVolume(Mgr, ch, value, FALSE))

\* PatchbayChannel.toggle_mute, then updateFader(): the slider follows with
\* its signals blocked
ChannelToggleMute ==
    \E ch \in Channels :
        LET level == IF channel[ch].muted THEN channel[ch].pre_mute_volume
                     ELSE 0
        IN /\ calls < MaxCalls
           /\ channel' = [channel EXCEPT
                 ![ch] = [muted |-> ~channel[ch].muted,
                          pre_mute_volume |->
                              IF channel[ch].muted
                              THEN channel[ch].pre_mute_volume
                              ELSE fader_value[ch],
                          slider |-> level]]
           /\ fader_value' = [fader_value EXCEPT ![ch] = level]
           /\ ContainerFrame(Call("toggle_mute", ch, ~channel[ch].muted, 0,
                                  FALSE, FALSE, FALSE),
                             SetVolume(Mgr, ch, level, FALSE))
           /\ UNCHANGED containers

NextGroups ==
    \/ CreateGroup \/ MacroFaderChanged \/ CrossfaderChanged
    \/ ContainerCreated \/ ContainerMacroChanged \/ ContainerCrossfaderChanged
    \/ ChannelFaderChanged \/ ChannelToggleMute

SpecGroups == InitGroups /\ [][NextGroups]_vars

\* the GroupWidgets, the mixer tab's strips and the polling thread
NextPoll ==
    \/ SnapBlocks \/ MacroFaderChanged \/ CrossfaderChanged
    \/ TabChanged \/ StripFaderMoved \/ PollRead \/ PollEmit
    \/ AlsaUpdateReceived

SpecPoll == Init /\ [][NextPoll]_vars

\* ------------------------------------------------------------ claims

Outputs == {ch \in Channels : IsMainOutput(ch)}

\* C1: from any reachable state, muting an unmuted channel at hardware level
\* L with hardware writes enabled pushes exactly 0 to that channel's mixer,
\* and the set_mute(name, false) that follows immediately pushes exactly L,
\* whatever the explicit arguments of the two calls.
C1_MuteRoundTrip ==
    \A ch \in Channels : ~channel_states[ch].muted =>
        \A e1, e2 \in BOOLEAN :
            LET m1 == set_mute(Mgr, ch, TRUE, FALSE, e1, FALSE)
                m2 == set_mute([m1 EXCEPT !.writes = <<>>], ch, FALSE, FALSE,
                               e2, FALSE)
            IN /\ m1.writes = << <<ch, 0>> >>
               /\ m1.hw[ch] = 0
               /\ m2.writes = << <<ch, hw[ch]>> >>
               /\ m2.hw[ch] = hw[ch]

\* the run set_mute("Mic-AN1", true); set_mute("Mic-AN1", false) at level 70
C1_Witness ==
    /\ calls = 2
    /\ last.op = "set_mute" /\ last.ch = "Mic-AN1" /\ ~last.flag /\ last.was
    /\ soloed_channels = {}
    /\ real_level["Mic-AN1"] = 70
    /\ writes = << <<"Mic-AN1", 70>> >>
    /\ hw["Mic-AN1"] = 70

\* C2: while a channel is muted its pre_mute_volume is the level it had just
\* before it became muted (or the last level update_volume gave it while
\* muted), and the set_mute(name, false) that unmutes it pushes that level.
C2_PreMuteLevelPreserved ==
    /\ \A ch \in Channels :
          channel_states[ch].muted =>
              channel_states[ch].pre_mute_volume = real_level[ch]
    /\ (last.op = "set_mute" /\ ~last.flag /\ last.was) =>
          writes = << <<last.ch, real_level[last.ch]>> >>

\* the muted flags and effective mutes after the step, for C3
EffectiveAfter(ch) ==
    get_effective_mute_state(
        [any_soloed |-> any_soloed', channel_states |-> channel_states'], ch)

FirstSolo == soloed_channels = {} /\ last'.op = "set_solo" /\ last'.flag

LastUnsolo == soloed_channels # {} /\ soloed_channels' = {}

RestoredToBeforeSolo ==
    \A ch \in Channels : channel_states'[ch].muted = before_solo[ch]

\* C3 as stated: after the first solo, of B, every non-output channel that is
\* not soloed is effectively muted and B is not; once the last soloed channel
\* is un-soloed every muted flag is what it was just before the first solo.
C3_Original ==
    [][/\ FirstSolo =>
             /\ \A ch \in Channels \ Outputs :
                   ch \notin soloed_channels' => EffectiveAfter(ch)
             /\ ~EffectiveAfter(last'.ch)
       /\ LastUnsolo => RestoredToBeforeSolo]_vars

\* C3 as amended: the same, where B's effective mute is false when B is not
\* an output channel (an output channel keeps its stored muted flag).
C3_SoloOverridesMute ==
    [][/\ FirstSolo =>
             /\ \A ch \in Channels \ Outputs :
                   ch \notin soloed_channels' => EffectiveAfter(ch)
             /\ last'.ch \notin Outputs => ~EffectiveAfter(last'.ch)
       /\ LastUnsolo => RestoredToBeforeSolo]_vars

\* the run set_mute(A, true); set_solo(B, true); set_solo(B, false)
C3_Witness ==
    /\ calls = 3
    /\ last.op = "set_solo" /\ last.ch = "Mic-AN2" /\ ~last.flag /\ last.was
    /\ soloed_channels = {}
    /\ before_solo["Mic-AN1"] /\ channel_states["Mic-AN1"].muted
    /\ ~before_solo["Mic-AN2"] /\ ~channel_states["Mic-AN2"].muted

SoloOfOutput == FirstSolo /\ last'.ch \in Outputs

\* C4: soloing an output channel while nothing is soloed changes no other
\* channel's muted flag or hardware level and leaves the output unmuted.
C4_SoloOfOutput ==
    [][SoloOfOutput =>
          /\ \A ch \in Channels \ {last'.ch} :
                /\ channel_states'[ch].muted = channel_states[ch].muted
                /\ hw'[ch] = hw[ch]
          /\ ~channel_states'[last'.ch].muted]_vars

\* C5: no set_solo or clear_all_solo call changes the muted flag of an output
\* channel.
C5_OutputMuteUntouched ==
    [][last'.op \in {"set_solo", "clear_all_solo"} =>
          \A ch \in Outputs :
              channel_states'[ch].muted = channel_states[ch].muted]_vars

\* C7: from any reachable state, a second set_mute(name, true, explicit=true)
\* right after the first leaves the ChannelRecords, the global sets and the
\* hardware levels as the first call left them, and writes nothing, with or
\* without skip_alsa in either call.
C7_SetMuteIdempotent ==
    \A ch \in Channels, s1, s2 \in BOOLEAN :
        LET m1 == set_mute(Mgr, ch, TRUE, s1, TRUE, FALSE)
            m2 == set_mute([m1 EXCEPT !.writes = <<>>], ch, TRUE, s2, TRUE,
                           FALSE)
        IN Core(m2) = Core(m1) /\ m2.writes = <<>>

\* the run set_mute("Mic-AN1", true); set_mute("Mic-AN1", true)
C7_Witness ==
    /\ calls = 2
    /\ last.op = "set_mute" /\ last.ch = "Mic-AN1" /\ last.flag
    /\ last.explicit /\ last.was
    /\ soloed_channels = {}
    /\ writes = <<>>
    /\ channel_states["Mic-AN1"].explicit_mute
    /\ channel_states["Mic-AN1"].pre_mute_volume = 70
    /\ hw["Mic-AN1"] = 0

NothingChanged ==
    /\ UNCHANGED progvars
    /\ writes' = <<>> /\ sweeps' = 0 /\ emitted' = 0 /\ log' = <<>>

\* C8: set_solo(name, s) on a channel whose soloed flag already is s changes
\* no ChannelRecord, writes nothing and runs no sweep.
C8_SetSoloNoOp ==
    [][(last'.op = "set_solo" /\ last'.was = last'.flag) =>
          NothingChanged]_vars

\* C9: after any sequence of set_mute and set_solo calls made with batch=True
\* the ChannelRecords, the global solo and mute sets and the hardware levels
\* are those the same calls leave when made with batch=False.
C9_BatchEquivalence == Core(unbatched) = Core(Mgr)

\* a batch of two calls that ended with a solo muting the other channels
C9_Witness ==
    /\ calls = 2
    /\ last.op = "set_solo" /\ last.batch /\ ~last.skip_alsa /\ last.flag
    /\ writes # <<>>
    /\ muted_channels # {} /\ soloed_channels # {}
    /\ \E ch \in Channels : channel_states[ch].explicit_mute
    /\ Core(unbatched) = Core(Mgr)

\* C10: a set_mute or set_solo call made with batch=True emits no
\* state_changed itself, so a batch followed by the caller's one emission
\* makes exactly one state_changed.
C10_BatchEmitsOnce ==
    /\ (last.op \in {"set_mute", "set_solo"} /\ last.batch) => emitted = 0
    /\ last.op = "caller_emit" => batch_total = 1

\* C6: with hardware writes enabled, a channel whose muted flag is true has
\* hardware level 0, whatever mute and solo clicks, fader moves and pan-law
\* pushes of a group led to the state.
C6_MutedMeansSilent ==
    \A ch \in Channels : channel_states[ch].muted => hw[ch] = 0

\* positions in the log of the last call at which a step of this kind stands
At(kind) == {i \in DOMAIN log : log[i][1] = kind}

\* the steps of this kind in the log of the last call, in order
Steps(kind) == SelectSeq(log, LAMBDA step : step[1] = kind)

\* C11: in a set_solo call the snapshot into pre_solo_muted (taken exactly
\* when no channel was soloed before the call) comes before every re-applied
\* mute, so pre_solo_muted holds the muted flags from before the call, and
\* the sweep has gone over every channel before any state_changed fires.
C11_SetSoloOrdering ==
    last.op = "set_solo" /\ log # <<>> =>
        /\ \A i \in At("snapshot"), j \in At("apply") : i < j
        /\ \A i \in At("apply"), j \in At("state_changed") : i < j
        /\ Steps("apply") =
              [i \in 1..Len(ChannelOrder) |-> <<"apply", ChannelOrder[i]>>]
        /\ At("state_changed") # {}
        /\ Cardinality(At("snapshot")) =
              IF last.flag /\ soloed_channels = {last.ch} /\ ~last.was
              THEN 1 ELSE 0
        /\ At("snapshot") # {} =>
              \A ch \in Channels :
                  channel_states[ch].pre_solo_muted = before_solo[ch]

\* the run set_mute("Mic-AN1", true); set_solo("Mic-AN2", true)
C11_Witness ==
    /\ calls = 2
    /\ last.op = "set_solo" /\ last.ch = "Mic-AN2" /\ last.flag /\ ~last.was
    /\ log[1] = <<"snapshot">>
    /\ Len(Steps("apply")) = Len(ChannelOrder)
    /\ Len(Steps("state_changed")) = 2
    /\ log[Len(log)] = <<"state_changed">>
    /\ before_solo["Mic-AN1"] /\ channel_states["Mic-AN1"].pre_solo_muted
    /\ ~before_solo["Mic-AN2"] /\ channel_states["Mic-AN2"].muted = FALSE
    /\ channel_states["Main-Out AN1"].pre_solo_muted = FALSE

\* C12: get_effective_mute_state of a non-output channel is (not soloed)
\* whenever some channel is soloed, whatever its stored muted flag, and its
\* stored muted flag when none is; of an output channel it is always the
\* stored muted flag.
C12_EffectiveMute ==
    \A name \in Channels :
        get_effective_mute_state(Mgr, name) =
            IF name \notin Outputs
               /\ \E ch \in Channels : channel_states[ch].soloed
            THEN ~channel_states[name].soloed
            ELSE channel_states[name].muted

\* a solo is on while a soloed input is stored as muted, an unsoloed input
\* is muted and an output is stored as unmuted
C12_Witness ==
    /\ channel_states["Mic-AN1"].soloed /\ channel_states["Mic-AN1"].muted
    /\ ~get_effective_mute_state(Mgr, "Mic-AN1")
    /\ ~channel_states["Mic-AN2"].soloed
    /\ get_effective_mute_state(Mgr, "Mic-AN2")
    /\ ~channel_states["Main-Out AN1"].muted
    /\ ~get_effective_mute_state(Mgr, "Main-Out AN1")

\* C13: the flash timer is active exactly when some channel is muted or
\* soloed, flash_on is false whenever the timer is not active, and each tick
\* of the active timer inverts flash_on and leaves the timer running.
C13_FlashTicker ==
    /\ [](/\ timer_active <=>
              \E ch \in Channels :
                  channel_states[ch].muted \/ channel_states[ch].soloed
          /\ ~timer_active => ~flash_on)
    /\ [][last'.op = "toggle_flash" =>
             /\ timer_active /\ timer_active'
             /\ flash_on' = ~flash_on]_vars

\* the run set_mute("Mic-AN1", true); tick; tick: the timer runs and the
\* second tick has put the flash out again
C13_Witness ==
    /\ calls = 3
    /\ last.op = "toggle_flash"
    /\ timer_active /\ ~flash_on
    /\ log = << <<"flash_state_changed", FALSE>> >>
    /\ muted_channels = {"Mic-AN1"} /\ soloed_channels = {}

\* C14: set_mute, set_solo or update_volume with a name the manager does
\* not know changes no ChannelRecord, global set, flash-timer state or
\* hardware level, writes nothing and emits no signal.
C14_UnknownChannel ==
    [][(/\ last'.op \in {"set_mute", "set_solo", "update_volume"}
        /\ last'.ch \notin Channels) => NothingChanged]_vars

\* the run set_mute("Mic-AN1", true); update_volume("Mic-AN9", 55)
C14_Witness ==
    /\ calls = 2
    /\ last.op = "update_volume" /\ last.ch = "Mic-AN9" /\ last.vol = 55
    /\ muted_channels = {"Mic-AN1"} /\ timer_active
    /\ log = <<>> /\ writes = <<>>

\* the flags, global sets and flash-timer state of a manager
Flags(m) ==
    [channel_states |->
         [ch \in Channels |->
             [muted |-> m.channel_states[ch].muted,
              soloed |-> m.channel_states[ch].soloed,
              explicit_mute |-> m.channel_states[ch].explicit_mute,
              explicit_solo |-> m.channel_states[ch].explicit_solo,
              pre_solo_muted |-> m.channel_states[ch].pre_solo_muted]],
     soloed_channels |-> m.soloed_channels,
     muted_channels |-> m.muted_channels,
     any_soloed |-> m.any_soloed, any_muted |-> m.any_muted,
     timer_active |-> m.timer_active, flash_on |-> m.flash_on]

\* the signals of a call, the level carried by volume_changed left out
Notified(steps) ==
    [i \in DOMAIN steps |->
        IF steps[i][1] = "volume_changed"
        THEN <<steps[i][1], steps[i][2]>>
        ELSE steps[i]]

\* C15: when mixer reads or writes fail during set_mute or set_solo calls,
\* the muted, soloed and explicit flags, the global sets, the flash-timer
\* state and the signals of each call are those of the same calls made with
\* no failure; only hardware levels and pre_mute_volume may differ.
C15_BackendFailure ==
    /\ Flags(Mgr) = Flags(faultless)
    /\ Notified(log) = Notified(faultless.log)
    /\ emitted = faultless.emitted

\* a failed getvolume and a failed setvolume have left a level and a
\* pre_mute_volume other than those of the run without failures
C15_Witness ==
    /\ calls = 2
    /\ hw # faultless.hw
    /\ \E ch \in Channels :
           /\ channel_states[ch].muted
           /\ channel_states[ch].pre_mute_volume #
                  faultless.channel_states[ch].pre_mute_volume
    /\ Flags(Mgr) = Flags(faultless)

\* Python's round(n / d) for n >= 0, d > 0: the nearest integer, a tie going
\* to the even one
Round(n, d) ==
    LET q == n \div d
        r == n % d
    IN IF 2 * r < d THEN q
       ELSE IF 2 * r > d THEN q + 1
       ELSE IF q % 2 = 0 THEN q ELSE q + 1

\* C16: a group created from members at levels a and b gets macro level
\* (a + b) // 2 and crossfader position round(100 * a / (a + b)) when
\* a + b > 0, else 50; levels 80 and 40 give 60 and 67.
C16_GroupCreation ==
    [][last'.op = "create_group" =>
          \A g \in groups' \ groups :
              LET a == fader_value[g.block1]
                  b == fader_value[g.block2]
              IN /\ g.macro_fader = (a + b) \div 2
                 /\ g.crossfader = IF a + b > 0 THEN Round(100 * a, a + b)
                                   ELSE 50
                 /\ (a = 80 /\ b = 40) =>
                        g.macro_fader = 60 /\ g.crossfader = 67]_vars


\* the two-member groups of either implementation: members a and b, the macro
\* fader m and the crossfader's balance
PanGroups ==
    {[a |-> g.block1, b |-> g.block2, m |-> g.macro_fader,
      balance |-> g.crossfader] : g \in groups}
    \cup {[a |-> c.blocks[1], b |-> c.blocks[2], m |-> c.macro_fader,
           balance |-> c.crossfader] : c \in containers}

\* the group whose macro fader or crossfader the last gesture moved
Pushed ==
    {g \in PanGroups : /\ last.op \in {"macro_fader_changed",
                                        "crossfader_changed"}
                       /\ last.ch = g.a}

\* C17: after a push of a group with macro level m, balance 0 leaves member A
\* at m and member B at 0, balance 100 leaves A at 0 and B at m, and balance
\* 50 leaves both members at the same level
C17_PanLawBoundaries ==
    \A g \in Pushed :
        /\ g.balance = 0 => fader_value[g.a] = g.m /\ fader_value[g.b] = 0
        /\ g.balance = 100 => fader_value[g.a] = 0 /\ fader_value[g.b] = g.m
        /\ g.balance = 50 => fader_value[g.a] = fader_value[g.b]
        /\ g.balance \in Balances => hw[g.a] = fader_value[g.a]
                                     /\ hw[g.b] = fader_value[g.b]

\* a GroupWidget of the two microphones, its macro fader moved to 37 and
\* then its crossfader pulled fully to A
C17_Witness ==
    /\ block_class = "ChannelBlock"
    /\ last.op = "crossfader_changed" /\ last.vol = 0
    /\ \E g \in Pushed : /\ g.a = "Mic-AN1" /\ g.b = "Mic-AN2"
                         /\ g.balance = 0 /\ g.m = 37
                         /\ hw[g.a] = 37 /\ hw[g.b] = 0


\* C18: after a push the members hold round(m * cos(balance / 100 * pi / 2))
\* and round(m * sin(balance / 100 * pi / 2)), clamped to 0..100, and at
\* m = 100, balance = 50 both are within 1 of 70
C18_PanLawLevels ==
    \A g \in Pushed :
        /\ fader_value[g.a] =
               Clamp(Round(g.m * CosMicro[g.balance + 1], 1000000))
        /\ fader_value[g.b] =
               Clamp(Round(g.m * CosMicro[100 - g.balance + 1], 1000000))
        /\ g.m = 100 /\ g.balance = 50
               => fader_value[g.a] \in 69..71 /\ fader_value[g.b] \in 69..71


\* C19: a push from a group's macro fader or crossfader leaves the moved
\* control at the operator's value and the other control where it was, sets
\* the two members and writes each of them once, reconciles nothing, changes
\* no other group, and leaves the hardware level of each member equal to the
\* block's, so that a later poll finds nothing to reconcile either
C19_NoFeedbackOnPush ==
    [][(/\ calls' = calls + 1
        /\ last'.op \in {"macro_fader_changed", "crossfader_changed"})
       => \E g \in PanGroups :
            LET h == [g EXCEPT
                        !.m = IF last'.op = "macro_fader_changed"
                              THEN last'.vol ELSE @,
                        !.balance = IF last'.op = "crossfader_changed"
                                    THEN last'.vol ELSE @]
            IN /\ g.a = last'.ch
               /\ PanGroups' = (PanGroups \ {g}) \cup {h}
               /\ log' = << <<"push", g.a>> >>
               /\ writes' = << <<g.a, fader_value'[g.a]>>,
                               <<g.b, fader_value'[g.b]>> >>
               /\ hw'[g.a] = fader_value'[g.a]
               /\ hw'[g.b] = fader_value'[g.b]
               /\ \A ch \in Channels \ {g.a, g.b} :
                      fader_value'[ch] = fader_value[ch] /\ hw'[ch] = hw[ch]
               /\ alsa_update' = alsa_update]_vars

\* a GroupContainer of the two microphones whose crossfader was pulled fully
\* to A: the members moved, the macro fader stayed at 100
C19_Witness ==
    /\ block_class = "PatchbayChannel"
    /\ last.op = "crossfader_changed" /\ last.vol = 0
    /\ log = << <<"push", "Mic-AN1">> >>
    /\ \E g \in Pushed : /\ g.a = "Mic-AN1" /\ g.b = "Mic-AN2"
                         /\ g.m = 100 /\ g.balance = 0
    /\ fader_value["Mic-AN1"] = 100 /\ fader_value["Mic-AN2"] = 0


\* the groups the last handler reconciled with their members
Reconciling ==
    {g \in PanGroups :
        \E i \in 1..Len(log) : log[i] = <<"reconcile", g.a>>}

\* C20: a group reconciled after a member's level changed outside the group
\* holds macro level (level_a + level_b) // 2 and the balance the creation
\* formula gives for the two levels, 50 when both are 0
C20_Reconciliation ==
    \A g \in Reconciling :
        /\ g.m = (fader_value[g.a] + fader_value[g.b]) \div 2
        /\ g.balance = crossfader_pos(fader_value[g.a], fader_value[g.b])


\* how many times a handler's log holds a step
Count(steps, step) == Cardinality({i \in 1..Len(steps) : steps[i] = step})

\* the watched values of a map that differ from the map before it
Differing(vals, before) ==
    {ch \in DOMAIN vals : ch \notin DOMAIN before \/ vals[ch] # before[ch]}

GroupsOf(ch) == {g \in groups : ch \in {g.block1, g.block2}}

C23_InvalidPairingRejected ==
    [][(/\ calls' = calls + 1
        /\ last'.op \in {"block_create_group", "view_create_group"})
       => /\ groups \subseteq groups'
          /\ \A g \in groups' \ groups :
                /\ g.block1 # g.block2
                /\ GroupsOf(g.block1) = {} /\ GroupsOf(g.block2) = {}]_vars


\* C24: ungroup leaves both members in no group and the group in no list,
\* leaves the members at the levels of the group's last push, writes nothing
\* to the hardware, and changes no flag of the manager
C24_Ungroup ==
    [][(calls' = calls + 1 /\ last'.op = "ungroup")
       => \E g \in groups :
            /\ g.block1 = last'.ch
            /\ groups' = groups \ {g}
            /\ GroupsOf(g.block1)' = {} /\ GroupsOf(g.block2)' = {}
            /\ g.pushed # <<>> => /\ fader_value'[g.block1] = g.pushed[1]
                                  /\ fader_value'[g.block2] = g.pushed[2]
            /\ fader_value' = fader_value
            /\ writes' = <<>> /\ hw' = hw
            /\ channel_states' = channel_states
            /\ soloed_channels' = soloed_channels
            /\ muted_channels' = muted_channels]_vars

\* the two microphones grouped, the crossfader pulled fully to B, then the
\* group dissolved: the blocks keep 0 and 55
C24_Witness ==
    /\ last.op = "ungroup" /\ last.ch = "Mic-AN1"
    /\ groups = {}
    /\ fader_value["Mic-AN1"] = 0 /\ fader_value["Mic-AN2"] = 55
    /\ hw["Mic-AN1"] = 0 /\ hw["Mic-AN2"] = 55


\* C25: the macro level and the balance of every group are in 0..100, and so
\* is every block's level, also after a group was reconciled with two members
\* whose levels sum to more than 100
C25_Ranges ==
    /\ \A g \in groups : g.macro_fader \in 0..100 /\ g.crossfader \in 0..100
    /\ \A c \in containers : /\ c.macro_fader \in 0..100
                             /\ c.macro_fader_value \in 0..100
                             /\ c.crossfader \in 0..100
    /\ \A ch \in Channels : fader_value[ch] \in 0..100 /\ hw[ch] \in 0..100


\* the members of the group of the last gesture that the manager does not
\* know
MissingMembers(g) == {g.block1, g.block2} \ DOMAIN channel_states

\* C26: a group mute, group solo or push of a group with a member the
\* manager does not know stops as a fatal error: the handler logs the fault
\* and changes neither the manager nor the hardware
C26_MissingMemberFatal ==
    [][(/\ calls' = calls + 1
        /\ last'.op \in {"group_mute_clicked", "group_solo_clicked",
                         "macro_fader_changed", "crossfader_changed"})
       => \A g \in groups :
             (g.block1 = last'.ch /\ MissingMembers(g) # {})
             => /\ \E i \in 1..Len(log') : log'[i][1] = "fatal"
                /\ UNCHANGED progvars]_vars


\* a step of the poller thread
PollerStep == poll_vals' # poll_vals \/ ticks' # ticks

\* C27: a step of the poller thread changes no block level, no group, no
\* container and no channel record and writes nothing to the hardware; it
\* at most queues the map it has read for the owning thread; every change of the model is made by a handler
\* of the owning thread
C27_PollerHandoff ==
    [][/\ PollerStep
          => /\ UNCHANGED <<progvars, fader_value, groups, containervars,
                            current_tab, log, writes>>
             /\ \/ alsa_update' = alsa_update
                \/ \E vals \in {poll_vals[i] : i \in DOMAIN poll_vals} :
                      alsa_update' = Append(alsa_update, vals)
       /\ <<progvars, fader_value, groups, containervars>>'
            # <<progvars, fader_value, groups, containervars>>
          => /\ ~PollerStep
             /\ \/ calls' = calls + 1
                \/ Len(alsa_update') < Len(alsa_update)]_vars

\* the poller has handed over a map that differs from the blocks' levels and
\* the owning thread has not handled it yet
C27_Witness ==
    /\ ticks > 0
    /\ alsa_update # <<>>
    /\ \E ch \in DOMAIN Head(alsa_update) :
          Head(alsa_update)[ch] # fader_value[ch]


\* C28: after a save_preset(p) that succeeded, load_preset(p.name) returns a
\* preset whose alsa_state and patchbay_state equal those of p; after a
\* delete_preset(name) that succeeded, load_preset(name) returns None and
\* list_presets() does not hold the name
C28_PresetRoundTrip ==
    /\ (preset_op.op = "save_preset" /\ preset_op.ok)
       => LET p == preset_op.preset[1]
              back == load_preset(preset_files, p.name)
          IN /\ back # <<>>
             /\ back[1].alsa_state = p.alsa_state
             /\ back[1].patchbay_state = p.patchbay_state
    /\ (preset_op.op = "delete_preset" /\ preset_op.ok)
       => /\ load_preset(preset_files, preset_op.name) = <<>>
          /\ \A i \in DOMAIN list_presets(preset_files) :
                list_presets(preset_files)[i] # preset_op.name


\* C29: a group made from levels (a > 0, b = 0) has a balance at which the
\* pan law, applied to the level a + b, gives member B nothing and member A
\* something, and a group made from (a = 0, b > 0) one that gives member A
\* nothing and member B something
C29_BalanceOrientation ==
    \A g \in groups :
        LET a == fader_value[g.block1]
            b == fader_value[g.block2]
        IN g.pushed = <<>>
           => /\ (a > 0 /\ b = 0)
                 => /\ right_volume(a + b, g.crossfader) = 0
                    /\ left_volume(a + b, g.crossfader) > 0
              /\ (a = 0 /\ b > 0)
                 => /\ left_volume(a + b, g.crossfader) = 0
                    /\ right_volume(a + b, g.crossfader) > 0


\* C30: in every state the manager reaches, running _apply_solo_logic twice
\* leaves the ChannelRecords, the global sets and the hardware levels that
\* running it once leaves, and visiting the channels in any other order
\* leaves them too
C30_SweepIdempotent ==
    \A skip_alsa \in BOOLEAN :
        LET once == apply_solo_logic(Mgr, skip_alsa, FALSE)
        IN /\ Core(apply_solo_logic(once, skip_alsa, FALSE)) = Core(once)
           /\ \A order \in Orders(DOMAIN channel_states) :
                 Core(SoloSweepIn(Mgr, skip_alsa, order)) = Core(once)


\* C31: creating a group and reconciling a group write nothing to the
\* hardware and leave the hardware levels alone; creation leaves every block
\* level where it was, reconciliation leaves every block at the level the
\* update delivered for it or where it was; and a step that changes the
\* block level of a grouped member and does not take it from an update is a
\* move of the group's macro fader or crossfader
C31_GroupReadsOnly ==
    [][calls' = calls + 1
       => /\ last'.op = "create_group"
             => /\ groups' # groups
                /\ writes' = <<>> /\ hw' = hw
                /\ fader_value' = fader_value
          /\ last'.op = "alsa_update"
             => /\ writes' = <<>> /\ hw' = hw
                /\ \A ch \in Channels :
                      \/ fader_value'[ch] = fader_value[ch]
                      \/ /\ ch \in DOMAIN Head(alsa_update)
                         /\ fader_value'[ch] = Head(alsa_update)[ch]
          /\ \A g \in groups :
                (/\ <<fader_value'[g.block1], fader_value'[g.block2]>>
                      # <<fader_value[g.block1], fader_value[g.block2]>>
                 /\ last'.op # "alsa_update")
                => /\ last'.op \in {"macro_fader_changed",
                                    "crossfader_changed"}
                   /\ last'.ch = g.block1]_vars

\* an update has just been handled that moved a member of a group and the
\* group was reconciled with it (macro level and balance follow the members,
\* which differ from the levels of the group's last push)
C31_Witness ==
    /\ last.op = "alsa_update"
    /\ \E g \in groups :
          /\ \E i \in 1..Len(log) : log[i] = <<"reconcile", g.block1>>
          /\ g.pushed # <<>>
          /\ g.pushed # <<fader_value[g.block1], fader_value[g.block2]>>
          /\ g.macro_fader = (fader_value[g.block1] + fader_value[g.block2]) \div 2


\* C32: update_volume on a muted channel stores the value in pre_mute_volume,
\* writes nothing and leaves the hardware level; on an unmuted channel it
\* writes the value and leaves pre_mute_volume; and while a channel stays
\* muted after such an update, an unmute of it pushes the stored value
C32_UpdateVolume ==
    /\ [](\A ch \in Channels :
            (channel_states[ch].muted /\ stored_volume[ch] # <<>>)
            => set_mute(Mgr, ch, FALSE, FALSE, TRUE, FALSE).hw[ch]
                 = stored_volume[ch][1])
    /\ [][(calls' = calls + 1 /\ last'.op = "update_volume")
          => LET ch == last'.ch
             IN IF channel_states[ch].muted
                THEN /\ channel_states'[ch].pre_mute_volume = last'.vol
                     /\ writes' = <<>>
                     /\ hw' = hw
                ELSE /\ writes' = << <<ch, last'.vol>> >>
                     /\ hw'[ch] = last'.vol
                     /\ channel_states'[ch].pre_mute_volume
                          = channel_states[ch].pre_mute_volume]_vars


C34_Bookkeeping ==
    /\ soloed_channels = {ch \in Channels : channel_states[ch].soloed}
    /\ muted_channels = {ch \in Channels : channel_states[ch].muted}
    /\ any_soloed <=> soloed_channels # {}
    /\ any_muted <=> muted_channels # {}


\* C35: whenever no channel is soloed, every channel's pre_solo_muted equals
\* its muted flag
C35_SnapshotTracksMute ==
    soloed_channels = {}
    => \A ch \in Channels :
          channel_states[ch].pre_solo_muted = channel_states[ch].muted


\* the last solo has just been released: a channel muted before the solo is
\* muted again with pre_solo_muted set, and a channel the solo had muted is
\* back to unmuted with pre_solo_muted clear
C35_Witness ==
    /\ last.op = "set_solo" /\ ~last.flag /\ last.was
    /\ calls = 3
    /\ soloed_channels = {}
    /\ \E ch \in Channels :
          channel_states[ch].muted /\ channel_states[ch].pre_solo_muted
    /\ \E i \in 1..Len(log) :
          /\ log[i][1] = "mute_state_changed"
          /\ log[i][3] = FALSE
          /\ ~channel_states[log[i][2]].pre_solo_muted


\* C36: for every channel the stored muted flag equals
\* get_effective_mute_state; while a channel is soloed every channel that is
\* not an output has muted = ~soloed, and every such channel that is not
\* soloed has hardware level 0 (all calls of the run write the hardware)
C36_StoredIsEffective ==
    /\ \A ch \in Channels :
          channel_states[ch].muted = get_effective_mute_state(Mgr, ch)
    /\ any_soloed
       => \A ch \in Channels :
             ~IsMainOutput(ch)
             => /\ channel_states[ch].muted = ~channel_states[ch].soloed
                /\ ~channel_states[ch].soloed => hw[ch] = 0


\* C37: in every state explicit_mute implies muted and explicit_solo implies
\* soloed, and a channel the sweep of a solo has just muted (it was not muted
\* when the solo began) has explicit_mute clear
C37_ExplicitImpliesEffective ==
    /\ \A ch \in Channels :
          /\ channel_states[ch].explicit_mute => channel_states[ch].muted
          /\ channel_states[ch].explicit_solo => channel_states[ch].soloed
    /\ (last.op = "set_solo" /\ any_soloed)
       => \A ch \in Channels :
             (/\ channel_states[ch].muted
              /\ ~channel_states[ch].pre_solo_muted
              /\ \E i \in 1..Len(log) :
                    log[i] = <<"mute_state_changed", ch, TRUE>>)
             => ~channel_states[ch].explicit_mute


\* C38: set_mute(name, False) with the default arguments on a channel whose
\* muted flag is clear writes nothing and leaves the hardware levels and the
\* channel's record as they were
C38_UnmuteOfUnmuted ==
    [][(/\ calls' = calls + 1
        /\ last'.op = "set_mute" /\ ~last'.flag /\ last'.explicit
        /\ ~last'.skip_alsa /\ ~last'.batch
        /\ ~channel_states[last'.ch].muted)
       => /\ writes' = <<>>
          /\ hw' = hw
          /\ channel_states'[last'.ch] = channel_states[last'.ch]]_vars


\* C39: every group that exists (its members reference it) is in
\* PatchbayView.groups, whichever handler created it, and the two members of
\* a group reference that group and no other
C39_ActiveSet ==
    \A g \in groups :
        /\ g.listed
        /\ GroupsOf(g.block1) = {g}
        /\ GroupsOf(g.block2) = {g}

====
